---- MODULE Spec2Model ----
(***************************************************************************)
(* Model of the everstory-automation sheet tools:                          *)
(*   compare_one_sheet.py  key-based, order-preserving diff + verified     *)
(*                         filter                                          *)
(*   compare_sheets.py     full-row set-difference diff                    *)
(*   parse_file.py         batch row parser (parse_moderated_responses)    *)
(*   parse_row.py          single row parser (parse_single_row)            *)
(*                                                                         *)
(* A character is a one-character string, a cell is a sequence of          *)
(* characters, a row is a sequence of cells, a table is a sequence of      *)
(* rows.  A file is a record [exists, text] whose text is a sequence of    *)
(* characters.  Python's None is the record PyNone.                        *)
(***************************************************************************)
EXTENDS Integers, Sequences, FiniteSets, TLC

VARIABLES
    current_file,        \* data/moderated_responses_latest.csv
    previous_file,       \* data/moderated_responses_previous.csv
    output_file,         \* data/new_rows.csv
    comparison_metadata, \* data/comparison_metadata.json
    called,              \* the diff function that ran last
    new_rows,            \* the list that call returned
    printed,             \* the outcome messages that call printed
    rows,                \* filter_verified_rows: argument rows
    verification_column_index, \* filter_verified_rows: argument
    verified_rows,       \* filter_verified_rows: returned list
    filter_called,       \* filter_verified_rows has returned
    csv_rows,            \* parsers: the header and the rows csv.reader yields
    row_index,           \* parse_single_row: argument
    parser_called,       \* the parser that ran last
    items,               \* parse_moderated_responses: returned list
    parse_log,           \* parse_moderated_responses: the skip/error messages
    single               \* parse_single_row: its outcome

vars == << current_file, previous_file, output_file, comparison_metadata,
           called, new_rows, printed,
           rows, verification_column_index, verified_rows, filter_called,
           csv_rows, row_index, parser_called, items, parse_log, single >>

diff_vars == << current_file, previous_file, output_file, comparison_metadata,
                called, new_rows, printed >>
filter_vars == << rows, verification_column_index, verified_rows, filter_called >>
parse_vars == << csv_rows, row_index, parser_called, items, parse_log, single >>

----------------------------------------------------------------------------
(* Bounds of the model.                                                    *)

\* rows in an input snapshot, the header included
MaxRows == 3
\* rows handed to filter_verified_rows
MaxFilterRows == 3
\* largest verification_column_index tried
MaxIndex == 1
\* data rows under the header in a parsed file
MaxDataRows == 2

----------------------------------------------------------------------------
(* Sequence helpers.                                                       *)

RECURSIVE Concat(_)
Concat(ss) == IF ss = <<>> THEN <<>> ELSE Head(ss) \o Concat(Tail(ss))

RECURSIVE IsSubsequence(_, _)
IsSubsequence(s, t) ==
    IF s = <<>> THEN TRUE
    ELSE IF t = <<>> THEN FALSE
    ELSE IF Head(s) = Head(t) THEN IsSubsequence(Tail(s), Tail(t))
    ELSE IsSubsequence(s, Tail(t))

Range(s) == { s[i] : i \in 1..Len(s) }

SeqsUpTo(S, n) == UNION { [1..k -> S] : k \in 0..n }

\* every ordering of a finite set, as sequences
Orderings(S) ==
    { f \in [1..Cardinality(S) -> S] : \A i, j \in 1..Cardinality(S) : f[i] = f[j] => i = j }

----------------------------------------------------------------------------
(* The csv module, default "excel" dialect, as the sources use it.         *)

CR == "\r"
LF == "\n"
DQ == "\""
COMMA == ","

\* open(filepath, 'r'): universal newlines decode \r\n and a lone \r as \n.
\* DecodedChar is the character read at offset i, DecodedStep the number of
\* characters of the file it takes.
DecodedChar(t, i) == IF t[i] = CR THEN LF ELSE t[i]

DecodedStep(t, i) == IF t[i] = CR /\ i < Len(t) /\ t[i + 1] = LF THEN 2 ELSE 1

\* csv.reader: the parser's state machine, one cell at a time.  st is the
\* parser state and field the cell read so far; the result is the saved
\* cell, the offset after it and what ended it.
RECURSIVE ScanField(_, _, _, _)
ScanField(t, i, st, field) ==
    IF i > Len(t)
    THEN [field |-> field, next |-> i, term |-> "EOF"]
    ELSE LET c == DecodedChar(t, i)
             j == i + DecodedStep(t, i)
         IN  CASE st = "START_FIELD" ->
                    IF c = LF THEN [field |-> <<>>, next |-> j, term |-> "EOL"]
                    ELSE IF c = DQ THEN ScanField(t, j, "IN_QUOTED_FIELD", <<>>)
                    ELSE IF c = COMMA THEN [field |-> <<>>, next |-> j, term |-> "COMMA"]
                    ELSE ScanField(t, j, "IN_FIELD", <<c>>)
               [] st = "IN_FIELD" ->
                    IF c = LF THEN [field |-> field, next |-> j, term |-> "EOL"]
                    ELSE IF c = COMMA THEN [field |-> field, next |-> j, term |-> "COMMA"]
                    ELSE ScanField(t, j, "IN_FIELD", Append(field, c))
               [] st = "IN_QUOTED_FIELD" ->
                    IF c = DQ THEN ScanField(t, j, "QUOTE_IN_QUOTED_FIELD", field)
                    ELSE ScanField(t, j, "IN_QUOTED_FIELD", Append(field, c))
               [] OTHER -> \* QUOTE_IN_QUOTED_FIELD
                    IF c = DQ THEN ScanField(t, j, "IN_QUOTED_FIELD", Append(field, c))
                    ELSE IF c = COMMA THEN [field |-> field, next |-> j, term |-> "COMMA"]
                    ELSE IF c = LF THEN [field |-> field, next |-> j, term |-> "EOL"]
                    ELSE ScanField(t, j, "IN_FIELD", Append(field, c))

\* the cells of one record, from offset i
RECURSIVE ScanRecord(_, _, _)
ScanRecord(t, i, row) ==
    LET f == ScanField(t, i, "START_FIELD", <<>>)
    IN  IF f.term = "COMMA"
        THEN ScanRecord(t, f.next, Append(row, f.field))
        ELSE [row |-> Append(row, f.field), next |-> f.next]

\* START_RECORD: an empty line is the row [], the end of the text ends the rows
RECURSIVE ScanRecords(_, _, _)
ScanRecords(t, i, acc) ==
    IF i > Len(t) THEN acc
    ELSE IF DecodedChar(t, i) = LF
    THEN ScanRecords(t, i + DecodedStep(t, i), Append(acc, <<>>))
    ELSE LET rec == ScanRecord(t, i, <<>>)
         IN  ScanRecords(t, rec.next, Append(acc, rec.row))

\* list(csv.reader(f))
CsvReader(t) == ScanRecords(t, 1, <<>>)

\* csv.writer, QUOTE_MINIMAL: a cell is quoted when it holds the delimiter, the
\* quote character or a line terminator character, and when it is the empty
\* only cell of its row; a quote inside is doubled
NeedsQuotes(cell, only) ==
    \/ \E i \in 1..Len(cell) : cell[i] \in {COMMA, DQ, CR, LF}
    \/ (only /\ cell = <<>>)

RECURSIVE DoubleQuotes(_)
DoubleQuotes(cell) ==
    IF cell = <<>> THEN <<>>
    ELSE (IF Head(cell) = DQ THEN <<DQ, DQ>> ELSE <<Head(cell)>>) \o DoubleQuotes(Tail(cell))

CsvFieldUnquoted(cell, only) == cell

CsvField(cell, only) ==
    IF NeedsQuotes(cell, only) THEN <<DQ>> \o DoubleQuotes(cell) \o <<DQ>> ELSE cell

RECURSIVE JoinFields(_, _)
JoinFields(row, only) ==
    IF row = <<>> THEN <<>>
    ELSE IF Len(row) = 1 THEN CsvField(row[1], only)
    ELSE CsvField(Head(row), only) \o <<COMMA>> \o JoinFields(Tail(row), only)

\* writer.writerow(row): the cells joined by commas, then \r\n
CsvWriterow(row) == JoinFields(row, Len(row) = 1) \o <<CR, LF>>

\* writer.writerows(rows)
CsvWriterows(rs) == Concat([ i \in 1..Len(rs) |-> CsvWriterow(rs[i]) ])

----------------------------------------------------------------------------
(* Files.                                                                  *)

Absent == [exists |-> FALSE, text |-> <<>>]
FileOf(t) == [exists |-> TRUE, text |-> t]

\* read_csv returns None for a missing path, else list(csv.reader(f))
NoneData == [none |-> TRUE, data |-> <<>>]

read_csv(file) ==
    IF ~file.exists THEN NoneData
    ELSE [none |-> FALSE, data |-> CsvReader(file.text)]

----------------------------------------------------------------------------
(* compare_one_sheet.py and compare_sheets.py: the two diffs.              *)

\* the number of leading cells create_row_hash keeps
KeyColumns == 5

create_row_hash_whole_row(row) == row

create_row_hash(row) ==
    IF Len(row) >= KeyColumns THEN SubSeq(row, 1, KeyColumns) ELSE row

\* current_data[1:]
CurrentRowsWithHeader(current_data) == current_data

CurrentRows(current_data) == SubSeq(current_data, 2, Len(current_data))

\* previous_data is None or len(previous_data) <= 1
NoPreviousDataOffByOne(previous_data) ==
    previous_data.none \/ Len(previous_data.data) <= 2

NoPreviousData(previous_data) ==
    previous_data.none \/ Len(previous_data.data) <= 1

\* {create_row_hash(row) for row in previous_rows}
PreviousHashes(previous_rows) ==
    { create_row_hash(previous_rows[i]) : i \in 1..Len(previous_rows) }

\* the loop that appends the rows whose hash is not in previous_hashes
NewRowsKeepKnown(current_rows, previous_hashes) ==
    LET known(row) == create_row_hash(row) \in previous_hashes
    IN  SelectSeq(current_rows, known)

\* a sequence without the later repeats of its entries
RECURSIVE DropRepeats(_)
DropRepeats(s) ==
    IF s = <<>> THEN <<>>
    ELSE LET init == DropRepeats(SubSeq(s, 1, Len(s) - 1))
             last == s[Len(s)]
         IN  IF last \in Range(init) THEN init ELSE Append(init, last)

NewRowsNotInOnce(current_rows, previous_hashes) ==
    LET fresh(row) == create_row_hash(row) \notin previous_hashes
    IN  DropRepeats(SelectSeq(current_rows, fresh))

NewRowsNotIn(current_rows, previous_hashes) ==
    LET fresh(row) == create_row_hash(row) \notin previous_hashes
    IN  SelectSeq(current_rows, fresh)

\* the "Save new rows" block: header row, then the new rows
SaveNewRows(header, new) == FileOf(CsvWriterow(header) \o CsvWriterows(new))

NoMetadata == [exists |-> FALSE, total_new_rows |-> 0, current_total |-> 0,
               previous_total |-> 0]

Metadata(new, current_rows, previous_data) ==
    [exists |-> TRUE,
     total_new_rows |-> Len(new),
     current_total |-> Len(current_rows),
     previous_total |-> IF ~previous_data.none /\ Len(previous_data.data) > 1
                        THEN Len(previous_data.data) - 1 ELSE 0]

find_new_rows_with_order ==
    LET current_data == read_csv(current_file)
        previous_data == read_csv(previous_file)
    IN  /\ called' = "find_new_rows_with_order"
        /\ IF current_data.none
           THEN /\ printed' = <<"Current file not found!">>
                /\ new_rows' = <<>>
                /\ UNCHANGED <<output_file, comparison_metadata>>
           ELSE IF current_data.data = <<>>
           THEN /\ printed' = <<"Current file is empty!">>
                /\ new_rows' = <<>>
                /\ UNCHANGED <<output_file, comparison_metadata>>
           ELSE LET header == Head(current_data.data)
                    current_rows == CurrentRows(current_data.data)
                    fallback == NoPreviousData(previous_data)
                    new == IF fallback
                           THEN current_rows
                           ELSE NewRowsNotIn(current_rows,
                                    PreviousHashes(Tail(previous_data.data)))
                    first == IF fallback
                             THEN <<"No previous data - all rows are considered new">>
                             ELSE <<>>
                IN  /\ new_rows' = new
                    /\ IF new # <<>>
                       THEN /\ output_file' = SaveNewRows(header, new)
                            /\ comparison_metadata' =
                                   Metadata(new, current_rows, previous_data)
                            /\ printed' = first \o <<"Saved new rows", "Metadata saved">>
                       ELSE /\ printed' = first \o <<"No new rows - sheets are identical">>
                            /\ UNCHANGED <<output_file, comparison_metadata>>
        /\ UNCHANGED <<current_file, previous_file, filter_vars, parse_vars>>

\* compare_sheets.py
rows_to_set(data, skip_header) ==
    { data[i] : i \in (IF skip_header THEN 2 ELSE 1)..Len(data) }

\* compare_sheets.read_csv also reports a missing path
NotFoundMessages(file) == IF file.exists THEN <<>> ELSE <<"File not found">>

find_new_rows ==
    LET current_data == read_csv(current_file)
        previous_data == read_csv(previous_file)
        read == NotFoundMessages(current_file) \o NotFoundMessages(previous_file)
    IN  /\ called' = "find_new_rows"
        /\ IF current_data.none
           THEN /\ printed' = read \o <<"Current file not found!">>
                /\ new_rows' = <<>>
                /\ UNCHANGED output_file
           ELSE LET header == IF current_data.data # <<>>
                              THEN Head(current_data.data) ELSE <<>>
                    candidates ==
                        IF previous_data.none
                        THEN { SubSeq(current_data.data, 2, Len(current_data.data)) }
                        \* list(set): the iteration order of a set of tuples of
                        \* strings is not fixed
                        ELSE Orderings(rows_to_set(current_data.data, TRUE)
                                       \ rows_to_set(previous_data.data, TRUE))
                    first == read \o
                             (IF previous_data.none
                              THEN <<"Previous file not found - treating all rows as new">>
                              ELSE <<>>)
                IN  \E new \in candidates :
                        /\ new_rows' = new
                        /\ IF new # <<>>
                           THEN /\ output_file' = SaveNewRows(header, new)
                                /\ printed' = first \o <<"Saved new rows">>
                           ELSE /\ printed' = first \o
                                       <<"No new rows found - sheets are identical">>
                                /\ UNCHANGED output_file
        /\ UNCHANGED <<current_file, previous_file, comparison_metadata,
                       filter_vars, parse_vars>>

----------------------------------------------------------------------------
(* compare_one_sheet.py: filter_verified_rows.                             *)

UpperLetters == << "A", "B", "C", "D", "E", "F", "G", "H", "I", "J", "K", "L", "M",
                   "N", "O", "P", "Q", "R", "S", "T", "U", "V", "W", "X", "Y", "Z" >>
LowerLetters == << "a", "b", "c", "d", "e", "f", "g", "h", "i", "j", "k", "l", "m",
                   "n", "o", "p", "q", "r", "s", "t", "u", "v", "w", "x", "y", "z" >>

LowerChar(c) ==
    IF \E k \in 1..Len(UpperLetters) : UpperLetters[k] = c
    THEN LowerLetters[CHOOSE k \in 1..Len(UpperLetters) : UpperLetters[k] = c]
    ELSE c

\* str.lower()
PyLowerUnchanged(cell) == cell

PyLower(cell) == [ k \in 1..Len(cell) |-> LowerChar(cell[k]) ]

\* the literal 'verified'
VerifiedLiteral == << "v", "e", "r", "i", "f", "i", "e", "d" >>

\* the rows the loop appends; verification_column_index counts from 0
VerifiedRows(rs, index) ==
    LET keep(row) ==
            /\ Len(row) > index
            /\ PyLower(row[index + 1]) = VerifiedLiteral
    IN  SelectSeq(rs, keep)

filter_verified_rows ==
    /\ verified_rows' = VerifiedRows(rows, verification_column_index)
    /\ filter_called' = TRUE
    /\ UNCHANGED <<rows, verification_column_index, diff_vars, parse_vars>>

----------------------------------------------------------------------------
(* parse_file.py and parse_row.py: the row parsers.                        *)

\* Python values: None, a str, an int
PyNone == [t |-> "none", s |-> <<>>, n |-> 0]
PyStr(chars) == [t |-> "str", s |-> chars, n |-> 0]
PyInt(k) == [t |-> "int", s |-> <<>>, n |-> k]

IsSpace(c) == c \in {" ", "\t", LF, CR, "\f"}

\* str.strip()
RECURSIVE StripLeft(_)
StripLeft(chars) ==
    IF chars # <<>> /\ IsSpace(Head(chars)) THEN StripLeft(Tail(chars)) ELSE chars

RECURSIVE StripRight(_)
StripRight(chars) ==
    IF chars # <<>> /\ IsSpace(chars[Len(chars)])
    THEN StripRight(SubSeq(chars, 1, Len(chars) - 1))
    ELSE chars

PyStrip(chars) == StripRight(StripLeft(chars))

\* int(str): surrounding whitespace, an optional sign, then decimal digits
\* with single underscores allowed between digits; anything else is a
\* ValueError
Digits == << "0", "1", "2", "3", "4", "5", "6", "7", "8", "9" >>
IsDigit(c) == \E k \in 1..Len(Digits) : Digits[k] = c
DigitValue(c) == (CHOOSE k \in 1..Len(Digits) : Digits[k] = c) - 1

RECURSIVE DecimalValue(_, _)
DecimalValue(chars, acc) ==
    IF chars = <<>> THEN acc
    ELSE IF Head(chars) = "_" THEN DecimalValue(Tail(chars), acc)
    ELSE DecimalValue(Tail(chars), 10 * acc + DigitValue(Head(chars)))

IsDecimalLiteral(chars) ==
    /\ chars # <<>>
    /\ IsDigit(chars[1]) /\ IsDigit(chars[Len(chars)])
    /\ \A k \in 1..Len(chars) : IsDigit(chars[k]) \/ chars[k] = "_"
    /\ \A k \in 1..(Len(chars) - 1) : ~(chars[k] = "_" /\ chars[k + 1] = "_")

PyIntOf(chars) ==
    LET body == PyStrip(chars)
        signed == body # <<>> /\ body[1] \in {"+", "-"}
        digits == IF signed THEN Tail(body) ELSE body
    IN  IF IsDecimalLiteral(digits)
        THEN [ok |-> TRUE,
              n |-> IF signed /\ body[1] = "-"
                    THEN 0 - DecimalValue(digits, 0) ELSE DecimalValue(digits, 0)]
        ELSE [ok |-> FALSE, n |-> 0]

\* "not value": None and '' are falsy
Falsy(value) == value.t = "none" \/ (value.t = "str" /\ value.s = <<>>)

parse_int_or_none(value) ==
    IF Falsy(value) \/ PyStrip(value.s) = <<>> THEN PyNone
    ELSE IF PyIntOf(value.s).ok THEN PyInt(PyIntOf(value.s).n)
    ELSE PyNone

parse_str_or_none_unstripped(value) ==
    IF Falsy(value) \/ PyStrip(value.s) = <<>> THEN PyNone
    ELSE PyStr(value.s)

parse_str_or_none(value) ==
    IF Falsy(value) \/ PyStrip(value.s) = <<>> THEN PyNone
    ELSE PyStr(PyStrip(value.s))

\* the record's fields, in the order both parsers fill them, and the column
\* each is read from
FieldOrder ==
    << "item_name", "item_name_audio_file_link", "item_description_text",
       "item_description_audio_file_link", "date_of_origin_calendar",
       "date_of_origin_years_ago", "location_of_origin_place_name",
       "location_of_origin_gps", "item_image_file_link", "image_source_link",
       "image_credit", "next_12", "tags", "sources" >>

ColumnOf ==
    [item_name |-> "Item_Name",
     item_name_audio_file_link |-> "Item_Name_Audio_File_Link",
     item_description_text |-> "Item_Description_Text",
     item_description_audio_file_link |-> "Item_Description_Audio_File_Link",
     date_of_origin_calendar |-> "Date_Of_Origin_Calendar",
     date_of_origin_years_ago |-> "Date_Of_Origin_Years_Ago",
     location_of_origin_place_name |-> "Location_Of_Origin_Place_Name",
     location_of_origin_gps |-> "Location_Of_Origin_GPS",
     item_image_file_link |-> "Item_Image_File_Link",
     image_source_link |-> "Image_Source_Link",
     image_credit |-> "Image Credit",
     next_12 |-> "Next_12",
     tags |-> "Tags",
     sources |-> "Sources"]

RequiredFields == {"item_name", "item_description_text"}
OptionalStrFields ==
    DOMAIN ColumnOf \ (RequiredFields \cup {"date_of_origin_years_ago"})

\* csv.DictReader: one dict per non-blank data row; a column the row is too
\* short for maps to None (restval), cells beyond the header go under the key
\* None, which no parser reads
DictRow(fieldnames, row) ==
    [ name \in Range(fieldnames) |->
        LET k == CHOOSE i \in 1..Len(fieldnames) :
                     /\ fieldnames[i] = name
                     /\ \A j \in 1..Len(fieldnames) : fieldnames[j] = name => j <= i
        IN  IF k <= Len(row) THEN PyStr(row[k]) ELSE PyNone ]

DictRows(table) ==
    LET nonblank(row) == row # <<>>
        kept == SelectSeq(table.data, nonblank)
    IN  [ i \in 1..Len(kept) |-> DictRow(table.fieldnames, kept[i]) ]

\* row.get(key, default)
Get(row, key, default) == IF key \in DOMAIN row THEN row[key] ELSE default

\* parse_file.py: the ModeratedResponseItem(...) call of one row.  raised names
\* the exception the call ends with, "" when it builds the item.
BuildItem(row) ==
    LET name == Get(row, "Item_Name", PyStr(<<>>))
        text == Get(row, "Item_Description_Text", PyStr(<<>>))
    IN  IF name.t = "none" \/ text.t = "none"
        THEN [raised |-> "AttributeError", record |-> <<>>]
        ELSE [raised |-> "",
              record |-> <<
                [ f \in DOMAIN ColumnOf |->
                    IF f = "item_name" THEN PyStr(PyStrip(name.s))
                    ELSE IF f = "item_description_text" THEN PyStr(PyStrip(text.s))
                    ELSE IF f = "date_of_origin_years_ago"
                    THEN parse_int_or_none(Get(row, ColumnOf[f], PyNone))
                    ELSE parse_str_or_none(Get(row, ColumnOf[f], PyNone)) ] >>]

\* the body of the for loop for the dict row numbered row_num: the item it
\* appends, or the message it prints
ParseOne(row, row_num) ==
    LET built == BuildItem(row)
    IN  IF built.raised # ""
        THEN [item |-> <<>>,
              log |-> << [row_num |-> row_num, kind |-> "Error parsing row",
                          what |-> built.raised] >>]
        ELSE IF built.record[1].item_name.s = <<>>
        THEN [item |-> <<>>,
              log |-> << [row_num |-> row_num, kind |-> "Skipping",
                          what |-> "missing Item_Name"] >>]
        ELSE IF built.record[1].item_description_text.s = <<>>
        THEN [item |-> <<>>,
              log |-> << [row_num |-> row_num, kind |-> "Skipping",
                          what |-> "missing Item_Description_Text"] >>]
        ELSE [item |-> built.record, log |-> <<>>]

\* enumerate(reader, start=2)
parse_moderated_responses ==
    LET dicts == DictRows(csv_rows)
        each == [ i \in 1..Len(dicts) |-> ParseOne(dicts[i], i + 1) ]
    IN  /\ parser_called' = "parse_moderated_responses"
        /\ items' = Concat([ i \in 1..Len(dicts) |-> each[i].item ])
        /\ parse_log' = Concat([ i \in 1..Len(dicts) |-> each[i].log ])
        /\ UNCHANGED <<csv_rows, row_index, single, diff_vars, filter_vars>>

\* parse_row.py: the assignments of parse_single_row, field by field.
\* Each .strip() on a None cell is an AttributeError, int() of a cell that is
\* no integer a ValueError; the first statement that raises ends the call.
SingleFieldRaises(row, f) ==
    LET value == Get(row, ColumnOf[f], PyStr(<<>>))
    IN  IF value.t = "none" THEN "AttributeError"
        ELSE IF f = "date_of_origin_years_ago"
                /\ PyStrip(value.s) # <<>>
                /\ ~PyIntOf(value.s).ok
        THEN "ValueError"
        ELSE ""

SingleFieldValue(row, f) ==
    LET value == Get(row, ColumnOf[f], PyStr(<<>>))
    IN  IF f \in RequiredFields THEN PyStr(PyStrip(value.s))
        ELSE IF f = "date_of_origin_years_ago"
        THEN IF PyStrip(value.s) # <<>> THEN PyInt(PyIntOf(value.s).n) ELSE PyNone
        ELSE IF PyStrip(value.s) # <<>> THEN PyStr(PyStrip(value.s)) ELSE PyNone

SingleRowOutcome(row) ==
    LET failing == { k \in 1..Len(FieldOrder) : SingleFieldRaises(row, FieldOrder[k]) # "" }
    IN  IF failing # {}
        THEN [raised |-> SingleFieldRaises(row,
                             FieldOrder[CHOOSE k \in failing : \A j \in failing : k <= j]),
              record |-> <<>>]
        ELSE [raised |-> "",
              record |-> << [ f \in DOMAIN ColumnOf |-> SingleFieldValue(row, f) ] >>]

\* no call yet, and a call that printed "does not exist" and returned None
NoOutcome == [raised |-> "", record |-> <<>>]

parse_single_row(index) ==
    LET dicts == DictRows(csv_rows)
    IN  /\ parser_called' = "parse_single_row"
        /\ row_index' = index
        /\ single' = IF index >= Len(dicts) THEN NoOutcome
                     ELSE SingleRowOutcome(dicts[index + 1])
        /\ UNCHANGED <<csv_rows, items, parse_log, diff_vars, filter_vars>>

----------------------------------------------------------------------------
(* Input snapshots of the diffs: sheet exports with \n line ends, absent,  *)
(* without any row, or holding a header and fewer than MaxRows data rows.  *)

CellA == <<"a">>
CellQuoteComma == <<DQ, COMMA>>

HeaderPool == { << <<"h">> >>, << <<"h">>, <<"k">> >> }

\* two rows that agree on their first KeyColumns cells and differ after them
\* (the second holds a cell that must be quoted), a short row whose only
\* cell is empty, and the row without cells that a blank line reads as
DiffRowPool ==
    { <<CellA, CellA, CellA, CellA, CellA, CellA>>,
      <<CellA, CellA, CellA, CellA, CellA, CellQuoteComma>>,
      << <<>> >>,
      <<>> }

ExportCell(cell) ==
    IF cell = <<>> \/ \E i \in 1..Len(cell) : cell[i] \in {COMMA, DQ, CR, LF}
    THEN <<DQ>> \o DoubleQuotes(cell) \o <<DQ>>
    ELSE cell

RECURSIVE ExportRow(_)
ExportRow(row) ==
    IF row = <<>> THEN <<>>
    ELSE ExportCell(Head(row))
         \o (IF Len(row) > 1 THEN <<COMMA>> ELSE <<>>) \o ExportRow(Tail(row))

ExportText(table) == Concat([ i \in 1..Len(table) |-> ExportRow(table[i]) \o <<LF>> ])

InputTables ==
    {<<>>} \cup { <<h>> \o d : h \in HeaderPool, d \in SeqsUpTo(DiffRowPool, MaxRows - 1) }

InputFiles == {Absent} \cup { FileOf(ExportText(table)) : table \in InputTables }

----------------------------------------------------------------------------
(* Idle values of the variables a specification does not use.              *)

DiffIdle ==
    /\ current_file = Absent /\ previous_file = Absent /\ output_file = Absent
    /\ comparison_metadata = NoMetadata
    /\ called = "none" /\ new_rows = <<>> /\ printed = <<>>

FilterIdle ==
    /\ rows = <<>> /\ verification_column_index = 0
    /\ verified_rows = <<>> /\ filter_called = FALSE

ParseIdle ==
    /\ csv_rows = [fieldnames |-> <<>>, data |-> <<>>]
    /\ row_index = 0 /\ parser_called = "none"
    /\ items = <<>> /\ parse_log = <<>> /\ single = NoOutcome

----------------------------------------------------------------------------
(* Specification of the diffs: a pair of snapshots, then any number of     *)
(* runs of either diff, both writing the default output path.              *)

Init ==
    /\ current_file \in InputFiles
    /\ previous_file \in InputFiles
    /\ output_file = Absent
    /\ comparison_metadata = NoMetadata
    /\ called = "none" /\ new_rows = <<>> /\ printed = <<>>
    /\ FilterIdle /\ ParseIdle

Next == find_new_rows_with_order \/ find_new_rows

Spec == Init /\ [][Next]_vars

----------------------------------------------------------------------------
(* Properties of the diffs.                                                *)

\* the rows of a file after its first row; none when the file is absent
DataRows(file) ==
    LET data == read_csv(file).data IN SubSeq(data, 2, Len(data))

KeyDiffReturned == called = "find_new_rows_with_order"
SetDiffReturned == called = "find_new_rows"

\* C1: when previous has at least one data row, find_new_rows_with_order
\* returns only rows of current whose key is the key of no previous data row,
\* and the returned rows are a subsequence of current's data rows.
C1_OnlyNewKeysInOrder ==
    KeyDiffReturned =>
        LET previous == DataRows(previous_file)
        IN  Len(previous) >= 1 =>
                /\ \A i \in 1..Len(new_rows) :
                       \A j \in 1..Len(previous) :
                           create_row_hash(new_rows[i]) # create_row_hash(previous[j])
                /\ IsSubsequence(new_rows, DataRows(current_file))

\* a run that kept one row of current and dropped another
C1_Witness ==
    /\ KeyDiffReturned
    /\ Len(DataRows(previous_file)) >= 1
    /\ Len(new_rows) >= 1
    /\ Len(new_rows) < Len(DataRows(current_file))

\* C2: when previous is absent or has no data row (header only, or no row at
\* all), find_new_rows_with_order returns exactly current's data rows, in order.
C2_NoPreviousAllRowsNew ==
    (KeyDiffReturned /\ Len(DataRows(previous_file)) = 0) =>
        new_rows = DataRows(current_file)

\* a header-only previous file and two current data rows, all returned
C2_Witness ==
    /\ KeyDiffReturned
    /\ previous_file.exists
    /\ Len(read_csv(previous_file).data) = 1
    /\ Len(new_rows) = 2

\* C3: with current absent or without data rows the diff returns nothing, an
\* absent current is signalled as missing (and not as empty), and a current
\* that holds no data row (a header alone included) is signalled as empty
\* (and not as missing).
C3_MissingAndEmptySignalled ==
    (KeyDiffReturned /\ Len(DataRows(current_file)) = 0) =>
        /\ new_rows = <<>>
        /\ ~current_file.exists =>
               /\ "Current file not found!" \in Range(printed)
               /\ "Current file is empty!" \notin Range(printed)
        /\ current_file.exists =>
               /\ "Current file is empty!" \in Range(printed)
               /\ "Current file not found!" \notin Range(printed)

\* C4: find_new_rows returns each distinct full row of current that is no full
\* row of previous exactly once, also when previous is absent.
C4_SetDifferenceOnce ==
    SetDiffReturned =>
        /\ Range(new_rows) = Range(DataRows(current_file)) \ Range(DataRows(previous_file))
        /\ \A i, j \in 1..Len(new_rows) : new_rows[i] = new_rows[j] => i = j

\* C5 as claimed: after every run of find_new_rows_with_order on a current file
\* with a header, the output file reloads as that header followed by the
\* returned rows, the empty result included.
C5_RoundTripEveryRun ==
    (KeyDiffReturned /\ read_csv(current_file).data # <<>>) =>
        read_csv(output_file) =
            [none |-> FALSE,
             data |-> <<Head(read_csv(current_file).data)>> \o new_rows]

\* C5 as amended: after a run of find_new_rows_with_order that returned a
\* non-empty result, the output file reloads as current's header followed by
\* exactly the returned rows, in order.
C5_RoundTripNonEmpty ==
    (KeyDiffReturned /\ new_rows # <<>>) =>
        read_csv(output_file) =
            [none |-> FALSE,
             data |-> <<Head(read_csv(current_file).data)>> \o new_rows]

\* a saved result holding a cell that needs quotes and a lone empty cell
C5_Witness ==
    /\ KeyDiffReturned
    /\ Len(new_rows) = 2
    /\ \E i \in 1..2 : new_rows[i] = << <<>> >>
    /\ \E i \in 1..2 : \E k \in 1..Len(new_rows[i]) : new_rows[i][k] = CellQuoteComma

\* C10: a snapshot compared against itself yields no new rows, under both diffs.
C10_SelfDiffEmpty ==
    (called # "none" /\ current_file = previous_file) => new_rows = <<>>

\* a snapshot with a repeated data row, compared against itself
C10_Witness ==
    /\ called # "none"
    /\ current_file = previous_file
    /\ Len(DataRows(current_file)) = 2
    /\ DataRows(current_file)[1] = DataRows(current_file)[2]

\* the number of leading cells that make up a row's key
KeyLength(row) == IF Len(row) < KeyColumns THEN Len(row) ELSE KeyColumns

\* the number of places of sequence s that hold x
Occurrences(s, x) == Cardinality({ i \in 1..Len(s) : s[i] = x })

\* C11: find_new_rows_with_order filters current only against previous: its
\* result is the sequence of current's data rows whose key is not in the
\* previous-key set, so such a row that occurs k times in current occurs k
\* times in the result.
C11_EveryOccurrenceKept ==
    KeyDiffReturned =>
        LET current == DataRows(current_file)
            previous == DataRows(previous_file)
            previous_keys ==
                { SubSeq(previous[j], 1, KeyLength(previous[j])) : j \in 1..Len(previous) }
            absent(row) == SubSeq(row, 1, KeyLength(row)) \notin previous_keys
        IN  /\ new_rows = SelectSeq(current, absent)
            /\ \A row \in Range(current) :
                   absent(row) => Occurrences(new_rows, row) = Occurrences(current, row)

\* a row that current holds twice and previous, which has data rows, does not
\* know, returned twice
C11_Witness ==
    /\ KeyDiffReturned
    /\ Len(DataRows(previous_file)) >= 1
    /\ Len(DataRows(current_file)) = 2
    /\ DataRows(current_file)[1] = DataRows(current_file)[2]
    /\ Len(new_rows) = 2
    /\ new_rows[1] = new_rows[2]

\* two rows with as many key cells, equal one by one
SameKey(r1, r2) ==
    /\ KeyLength(r1) = KeyLength(r2)
    /\ \A i \in 1..KeyLength(r1) : r1[i] = r2[i]

\* C12: create_row_hash gives every row, whatever its length, its first
\* KeyColumns cells in column order (all its cells when it has fewer, none
\* for the empty row); so find_new_rows_with_order drops a current row exactly
\* when some previous data row, wherever it stands, has the same key, also
\* when the two rows differ after their first KeyColumns cells.
C12_KeyIsLeadingCells ==
    LET current_data == read_csv(current_file).data
        previous_data == read_csv(previous_file).data
        current == SubSeq(current_data, 2, Len(current_data))
        previous == SubSeq(previous_data, 2, Len(previous_data))
    IN  /\ \A row \in Range(current_data) \cup Range(previous_data) :
               LET key == create_row_hash(row)
               IN  /\ Len(key) = KeyLength(row)
                   /\ \A k \in 1..Len(key) : key[k] = row[k]
        /\ KeyDiffReturned =>
               \A i \in 1..Len(current) :
                   (current[i] \notin Range(new_rows))
                       <=> \E j \in 1..Len(previous) : SameKey(previous[j], current[i])

\* a current row dropped for a previous row in another place that shares its
\* first KeyColumns cells and differs after them, next to the empty row, kept
C12_Witness ==
    /\ KeyDiffReturned
    /\ new_rows = << <<>> >>
    /\ LET current == DataRows(current_file)
           previous == DataRows(previous_file)
       IN  /\ Len(current) = 2
           /\ Len(previous) = 2
           /\ Len(current[1]) > KeyColumns
           /\ SameKey(previous[2], current[1])
           /\ previous[2] # current[1]
           /\ ~SameKey(previous[1], current[1])
           /\ current[2] = <<>>

----------------------------------------------------------------------------
(* Specification of the verified filter: a list of rows and a column       *)
(* index, then one call.                                                   *)

CellVerified == VerifiedLiteral
CellVERIFIED == << "V", "E", "R", "I", "F", "I", "E", "D" >>
CellMixed == << "V", "e", "r", "i", "f", "i", "e", "d" >>
CellPending == << "p", "e", "n", "d", "i", "n", "g" >>
CellPadded == << "v", "e", "r", "i", "f", "i", "e", "d", " " >>

FilterRowPool ==
    { <<CellVerified, CellPending>>,
      <<CellVERIFIED>>,
      <<CellPending, CellMixed>>,
      <<CellPadded, CellVerified>>,
      <<>> }

InitFilter ==
    /\ rows \in SeqsUpTo(FilterRowPool, MaxFilterRows)
    /\ verification_column_index \in 0..MaxIndex
    /\ verified_rows = <<>>
    /\ filter_called = FALSE
    /\ DiffIdle /\ ParseIdle

NextFilter == filter_verified_rows

SpecFilter == InitFilter /\ [][NextFilter]_vars

\* a cell that reads "verified" in any mix of upper and lower case
ReadsVerified(cell) ==
    /\ Len(cell) = Len(VerifiedLiteral)
    /\ \A k \in 1..Len(cell) :
           cell[k] \in {VerifiedLiteral[k], CellVERIFIED[k]}

\* C8: filter_verified_rows returns exactly the rows that have a cell at the
\* index and whose cell there reads "verified" in any case, in their original
\* order and once per occurrence; shorter rows and other rows are left out.
C8_VerifiedFilterExact ==
    filter_called =>
        LET accepted(row) ==
                /\ verification_column_index + 1 \in DOMAIN row
                /\ ReadsVerified(row[verification_column_index + 1])
        IN  verified_rows = SelectSeq(rows, accepted)

\* a call that kept an upper-case row and left out a short row and a pending row
C8_Witness ==
    /\ filter_called
    /\ \E i \in 1..Len(verified_rows) :
           verified_rows[i][verification_column_index + 1] = CellVERIFIED
    /\ \E i \in 1..Len(rows) : Len(rows[i]) <= verification_column_index
    /\ \E i \in 1..Len(rows) :
           /\ Len(rows[i]) > verification_column_index
           /\ rows[i][verification_column_index + 1] = CellPending

----------------------------------------------------------------------------
(* Specification of the parsers: a parsed file (header and up to           *)
(* MaxDataRows rows), then calls of either parser.                         *)

FullHeader == << "Item_Name", "Item_Description_Text", "Date_Of_Origin_Years_Ago", "Tags" >>
ShortHeader == << "Item_Name", "Date_Of_Origin_Years_Ago" >>

ParseHeaderPool == { FullHeader, ShortHeader }

\* rows laid out for FullHeader: name, description, years ago, tags
ParseRowPool ==
    { << <<" ", "a", " ">>, <<"b">>, <<"7">>, <<" ", "t", " ">> >>,
      << <<"c">>, <<"b">>, <<"x">>, <<>> >>,
      << <<"d">>, <<"b", " ">>, <<" ">>, <<" ">> >>,
      << <<"e">>, <<"b">>, <<>>, <<"t">> >>,
      << <<"f">>, <<"1", "2">>, <<" ", "1", "2">>, <<"t">> >>,
      << <<>>, <<"b">>, <<"7">>, <<"t">> >>,
      << <<" ">>, <<"b">>, <<"x">>, <<"t">> >>,
      << <<"g">>, <<" ">>, <<"7">>, <<"t">> >>,
      << <<"i">> >>,
      << <<"j">>, <<"b">> >>,
      <<>>,
      << <<"k">>, <<"b">>, <<"-", "3">>, <<"t">>, <<"extra">> >> }

ParseTables ==
    { [fieldnames |-> h, data |-> d] :
        h \in ParseHeaderPool, d \in SeqsUpTo(ParseRowPool, MaxDataRows) }

InitParse ==
    /\ csv_rows \in ParseTables
    /\ row_index = 0 /\ parser_called = "none"
    /\ items = <<>> /\ parse_log = <<>> /\ single = NoOutcome
    /\ DiffIdle /\ FilterIdle

NextParse ==
    \/ parse_moderated_responses
    \/ \E index \in 0..MaxDataRows : parse_single_row(index)

SpecParse == InitParse /\ [][NextParse]_vars

\* the dict row has the column and its cell is non-empty after trimming
Present(row, column) ==
    /\ column \in DOMAIN row
    /\ row[column].t = "str"
    /\ PyStrip(row[column].s) # <<>>

HasRequired(row) ==
    Present(row, "Item_Name") /\ Present(row, "Item_Description_Text")

\* the dict row holds a cell for every column of the header
Complete(row) == \A column \in DOMAIN row : row[column].t = "str"

\* what the "years ago" cell stands for: its integer, else nothing
YearsOf(row) ==
    LET value == Get(row, "Date_Of_Origin_Years_Ago", PyNone)
    IN  IF value.t = "str" /\ PyIntOf(value.s).ok THEN PyInt(PyIntOf(value.s).n)
        ELSE PyNone

\* what an optional cell stands for: its trimmed text, else nothing
TrimmedOrNone(row, column) ==
    IF Present(row, column) THEN PyStr(PyStrip(row[column].s)) ELSE PyNone

BatchReturned == parser_called = "parse_moderated_responses"
SingleReturned ==
    parser_called = "parse_single_row" /\ row_index < Len(DictRows(csv_rows))

\* C6: in both parsers a row whose "years ago" cell is empty, blank or no
\* integer still yields its record, with date_of_origin_years_ago None, and
\* an integer cell yields that integer; no such cell raises.
C6_YearsAgoNeverRaises ==
    /\ BatchReturned =>
           LET kept == SelectSeq(DictRows(csv_rows), HasRequired)
           IN  /\ Len(items) = Len(kept)
               /\ \A k \in 1..Len(kept) :
                      items[k].date_of_origin_years_ago = YearsOf(kept[k])
    /\ (SingleReturned /\ Complete(DictRows(csv_rows)[row_index + 1])) =>
           /\ single.raised = ""
           /\ single.record # <<>>
           /\ single.record[1].date_of_origin_years_ago
                  = YearsOf(DictRows(csv_rows)[row_index + 1])

\* C7: parse_moderated_responses turns every row with a name and a
\* description into a record holding both trimmed, in row order, and skips
\* every other row with a message that gives its position and names the
\* field that is missing.
C7_RecordOrNamedSkip ==
    BatchReturned =>
        LET dicts == DictRows(csv_rows)
            kept == SelectSeq(dicts, HasRequired)
            bad == { i \in 1..Len(dicts) : ~HasRequired(dicts[i]) }
        IN  /\ Len(items) = Len(kept)
            /\ \A k \in 1..Len(kept) :
                   /\ items[k].item_name = PyStr(PyStrip(kept[k]["Item_Name"].s))
                   /\ items[k].item_description_text
                          = PyStr(PyStrip(kept[k]["Item_Description_Text"].s))
            /\ Len(parse_log) = Cardinality(bad)
            /\ \A i \in bad :
                   \E e \in Range(parse_log) :
                       /\ e.row_num = i + 1
                       /\ e.kind = "Skipping"
                       /\ e.what = IF ~Present(dicts[i], "Item_Name")
                                   THEN "missing Item_Name"
                                   ELSE "missing Item_Description_Text"

\* every record the last parser call produced
Produced ==
    IF BatchReturned THEN Range(items)
    ELSE IF parser_called = "parse_single_row" THEN Range(single.record)
    ELSE {}

\* C9: in every record the parsers produce each optional string field is
\* None or a non-empty string without leading or trailing whitespace, namely
\* the trimmed cell of its column.
C9_OptionalFieldsNormalized ==
    /\ \A item \in Produced : \A f \in OptionalStrFields :
           \/ item[f] = PyNone
           \/ /\ item[f].t = "str"
              /\ item[f].s # <<>>
              /\ ~IsSpace(item[f].s[1])
              /\ ~IsSpace(item[f].s[Len(item[f].s)])
    /\ BatchReturned =>
           LET kept == SelectSeq(DictRows(csv_rows), HasRequired)
           IN  /\ Len(items) = Len(kept)
               /\ \A k \in 1..Len(kept) : \A f \in OptionalStrFields :
                      items[k][f] = TrimmedOrNone(kept[k], ColumnOf[f])
    /\ (SingleReturned /\ single.record # <<>>) =>
           \A f \in OptionalStrFields :
               single.record[1][f]
                   = TrimmedOrNone(DictRows(csv_rows)[row_index + 1], ColumnOf[f])

\* a batch that returned a record with trimmed tags and one with no tags
C9_Witness ==
    /\ BatchReturned
    /\ \E k \in 1..Len(items) : items[k].tags = PyStr(<<"t">>)
    /\ \E k \in 1..Len(items) : items[k].tags = PyNone
    /\ \E i \in 1..Len(csv_rows.data) :
           /\ Len(csv_rows.data[i]) >= 4
           /\ csv_rows.data[i][4] = <<" ", "t", " ">>

====
